---- MODULE Spec2Model ----
(***************************************************************************)
(* transmission-rss: fetch RSS feeds, extract links from XML elements at a *)
(* configured tag path, submit each link to the transmission daemon.       *)
(* Model of src/src/main.rs: main (the feed loop) and parse_xml (the scan).*)
(*                                                                         *)
(* Text is modelled as a sequence of one-character strings, so that        *)
(* str::split(',') and the comparison of tag names are computed character  *)
(* by character.  The quick_xml reader is modelled by the sequence of      *)
(* events read_event_into returns for a document, ended by Eof or by the   *)
(* Err it returns when the text cannot be tokenized.                       *)
(***************************************************************************)
EXTENDS Integers, Sequences, FiniteSets, TLC

VARIABLES
    config,         \* main: the Config read at lines 52-54
    pc,             \* main: where it is, "loop" .. "submit", or how it ended
    rss_idx,        \* main: the place in config.rss of the for of line 71
    parser_config,  \* main: line 73
    xml_content,    \* main: line 81, as the events the reader makes of it
    urls,           \* main: line 87
    url_idx,        \* main: the place in urls of the for of line 90
    log,            \* the calls main has made to reqwest::get, parse_xml and
                    \* client.torrent_add, in the order it made them
    calls           \* the locals of each parse_xml invocation: reader (doc,
                    \* pos), path_parts, current_path, urls, and its state

vars == <<config, pc, rss_idx, parser_config, xml_content, urls, url_idx,
          log, calls>>

mainVars == <<config, pc, rss_idx, parser_config, xml_content, urls, url_idx,
              log>>

(***************************************************************************)
(* Bounds of the model.                                                    *)
(***************************************************************************)
\* longest document of SpecScan, in events before the closing Eof / Err
MaxEvents == 3
\* most feeds in config.rss
MaxFeeds == 2
\* longest configured path string of SpecSplit, in characters
MaxPathLen == 4

\* most attributes written in one tag of SpecAttrs
MaxAttrs == 3

\* parse_xml invocations alive at once (one under main, two in SpecConc)
CallIds == {1, 2}

(***************************************************************************)
(* Text.                                                                   *)
(***************************************************************************)
\* a byte that is no valid UTF-8
BadByte == "\\xFF"

\* std::str::from_utf8(b).is_ok()
Utf8Ok(b) == \A n \in DOMAIN b : b[n] # BadByte

IsPrefix(s, t) == Len(s) =< Len(t) /\ SubSeq(t, 1, Len(s)) = s

RECURSIVE SplitFrom(_, _, _, _)
SplitFrom(s, n, piece, acc) ==
    IF n > Len(s) THEN Append(acc, piece)
    ELSE IF s[n] = "," THEN SplitFrom(s, n + 1, <<>>, Append(acc, piece))
    ELSE SplitFrom(s, n + 1, Append(piece, s[n]), acc)

\* a split that also trims the blanks around each piece
RECURSIVE SplitTrimFrom(_, _, _, _)
SplitTrimFrom(s, n, piece, acc) ==
    IF n > Len(s) THEN Append(acc, piece)
    ELSE IF s[n] = "," THEN SplitTrimFrom(s, n + 1, <<>>, Append(acc, piece))
    ELSE IF s[n] = " " THEN SplitTrimFrom(s, n + 1, piece, acc)
    ELSE SplitTrimFrom(s, n + 1, Append(piece, s[n]), acc)

SplitTrim(s) == SplitTrimFrom(s, 1, <<>>, <<>>)

\* parser_config.path.split(',').collect(): the pieces between the commas,
\* empty pieces included; a string without a comma is one piece
Split(s) == SplitFrom(s, 1, <<>>, <<>>)

(***************************************************************************)
(* Events of the reader.                                                   *)
(***************************************************************************)
\* an attribute as written in a tag, key="value", and as an Ok item of
\* e.attributes()
Attr(k, v) == [ok |-> TRUE, key |-> k, value |-> v]
\* an attribute written malformed (no key is told of it), and an item of
\* e.attributes() that is an Err
AttrErr == [ok |-> FALSE, key |-> <<>>, value |-> <<>>]

\* an attribute iterator with its checks off: Attributes::with_checks(false)
AttributesNoChecks(written) == written

\* line 128, e.attributes(): the items quick_xml's iterator yields for the
\* attributes written in the tag, in their order.  A malformed attribute
\* comes as an Err and the iterator goes on; with the iterator's checks at
\* their default (on), so does an attribute whose key an earlier one had
RECURSIVE AttributesFrom(_, _, _)
AttributesFrom(written, n, keys) ==
    IF n > Len(written) THEN <<>>
    ELSE IF ~written[n].ok \/ written[n].key \in keys
    THEN <<AttrErr>> \o AttributesFrom(written, n + 1, keys)
    ELSE <<written[n]>> \o AttributesFrom(written, n + 1, keys \cup {written[n].key})

Attributes(written) == AttributesFrom(written, 1, {})

EvStart(n, as) == [type |-> "Start", name |-> n, attrs |-> as]
EvEnd(n) == [type |-> "End", name |-> n, attrs |-> <<>>]
EvEmpty(n, as) == [type |-> "Empty", name |-> n, attrs |-> as]
EvText == [type |-> "Text", name |-> <<>>, attrs |-> <<>>]
EvEof == [type |-> "Eof", name |-> <<>>, attrs |-> <<>>]
\* read_event_into returned Err: the text could not be tokenized
EvErr == [type |-> "Err", name |-> <<>>, attrs |-> <<>>]

nA == <<"a">>
nB == <<"b">>
nSpB == <<" ", "b">>
kUrl == <<"k">>
kOther == <<"o">>
vX == <<"X">>
vY == <<"Y">>

\* events a document of SpecScan is made of; the reader is taken by the
\* type of its events, so a name is any text, blanks included
ScanEvents ==
    { EvStart(nA, <<>>), EvStart(nB, <<Attr(kUrl, vX)>>),
      EvEnd(nA), EvEnd(nB), EvText,
      EvEmpty(nA, <<Attr(kUrl, vX)>>),
      EvEmpty(nB, <<>>),
      EvEmpty(nB, <<Attr(kUrl, vX)>>),
      EvEmpty(nB, <<Attr(kUrl, vY)>>),
      EvEmpty(nB, <<Attr(kOther, vX)>>),
      EvEmpty(nSpB, <<Attr(kUrl, vX)>>) }

\* documents of SpecScan: up to MaxEvents events, then Eof or Err
ScanDocs ==
    { Append(body, last) :
        body \in UNION { [1..n -> ScanEvents] : n \in 0..MaxEvents },
        last \in {EvEof, EvErr} }

\* the bodies a fetched feed can have
FeedDocs ==
    { <<EvStart(nA, <<>>), EvEmpty(nB, <<Attr(kUrl, vX)>>),
        EvEmpty(nB, <<Attr(kUrl, vY)>>), EvEnd(nA), EvEof>>,
      <<EvStart(nA, <<>>), EvEmpty(nB, <<Attr(kUrl, vX)>>),
        EvEmpty(nB, <<Attr(kUrl, vX)>>), EvEnd(nA), EvEof>>,
      <<EvStart(nA, <<>>), EvEmpty(nB, <<Attr(kUrl, vX)>>), EvErr>>,
      <<EvText, EvStart(nA, <<>>), EvEmpty(nSpB, <<Attr(kUrl, vX)>>),
        EvEnd(nA), EvEof>>,
      <<EvStart(nA, <<>>), EvEmpty(nB, <<Attr(kOther, vX)>>), EvEnd(nA),
        EvEof>> }

(***************************************************************************)
(* parse_xml: one frame per invocation.                                    *)
(***************************************************************************)
ParserConfig(p, prop) == [path |-> p, property |-> prop]

NoParser == ParserConfig(<<>>, <<>>)

IdleFrame ==
    [state |-> "idle", doc |-> <<>>, pos |-> 1, path |-> <<>>,
     property |-> <<>>, path_parts |-> <<>>, current_path |-> <<>>,
     urls |-> <<>>]

\* lines 105-113: the locals of parse_xml before the first event is read
NewFrame(doc, pcfg) ==
    [state |-> "scan", doc |-> doc, pos |-> 1, path |-> pcfg.path,
     property |-> pcfg.property, path_parts |-> Split(pcfg.path),
     current_path |-> <<>>, urls |-> <<>>]

\* the event read_event_into returns next
NextEvent(f) == f.doc[f.pos]

Reading(c, type) ==
    /\ calls[c].state = "scan"
    /\ calls[c].pos =< Len(calls[c].doc)
    /\ NextEvent(calls[c]).type = type

\* a match on the element's own name alone, whatever its ancestors
PathMatchLast(check_path, path_parts) ==
    /\ path_parts # <<>>
    /\ check_path[Len(check_path)] = path_parts[Len(path_parts)]

\* check_path == path_parts, Vec<String> against Vec<&str>
PathMatch(check_path, path_parts) == check_path = path_parts

\* an extraction that gives an element without the property an empty value
ExtractOrEmpty(attributes, property) ==
    LET found == SelectSeq(attributes, LAMBDA a : a.ok /\ a.key = property)
    IN  IF found = <<>> THEN << <<>> >>
        ELSE [n \in 1..Len(found) |-> found[n].value]

\* lines 128-140: the values of the attributes whose key is the property
RECURSIVE Extract(_, _)
Extract(attributes, property) ==
    IF attributes = <<>> THEN <<>>
    ELSE LET attr == Head(attributes)
             rest == Extract(Tail(attributes), property)
         IN  IF attr.ok /\ Utf8Ok(attr.key) /\ attr.key = property
                /\ Utf8Ok(attr.value)
             THEN <<attr.value>> \o rest
             ELSE rest

\* a Start handler that also runs the match of lines 125-141
OnStartExtract(f) ==
    LET e == NextEvent(f)
        check_path == Append(f.current_path, e.name)
    IN  [f EXCEPT !.urls = IF check_path = f.path_parts
                           THEN @ \o Extract(Attributes(e.attrs), f.property) ELSE @,
                  !.current_path = check_path,
                  !.pos = @ + 1]

\* Event::Start, lines 116-119
OnStart(f) ==
    LET e == NextEvent(f)
    IN  IF ~Utf8Ok(e.name) THEN [f EXCEPT !.state = "err"]
        ELSE [f EXCEPT !.current_path = Append(@, e.name), !.pos = @ + 1]

\* an End handler that leaves the closed element on the stack
OnEndKeep(f) == [f EXCEPT !.pos = @ + 1]

\* an End handler that takes the popped name for granted: pop().unwrap()
OnEndUnwrap(f) ==
    IF f.current_path = <<>> THEN [f EXCEPT !.state = "panic"]
    ELSE [f EXCEPT !.current_path = SubSeq(@, 1, Len(@) - 1), !.pos = @ + 1]

\* Event::End, lines 120-122: Vec::pop, None on an empty Vec
OnEnd(f) ==
    [f EXCEPT !.current_path = IF @ = <<>> THEN @ ELSE SubSeq(@, 1, Len(@) - 1),
              !.pos = @ + 1]

\* an Empty handler that puts the new values in front of the old ones
OnEmptyPrepend(f) ==
    LET e == NextEvent(f)
        check_path == Append(f.current_path, e.name)
    IN  IF PathMatch(check_path, f.path_parts)
        THEN [f EXCEPT !.urls = Extract(Attributes(e.attrs), f.property) \o @, !.pos = @ + 1]
        ELSE [f EXCEPT !.pos = @ + 1]

\* an Empty handler that compares on the stack itself, not on a copy of it
OnEmptyPush(f) ==
    LET e == NextEvent(f)
        check_path == Append(f.current_path, e.name)
    IN  IF PathMatch(check_path, f.path_parts)
        THEN [f EXCEPT !.urls = @ \o Extract(Attributes(e.attrs), f.property),
                       !.current_path = check_path, !.pos = @ + 1]
        ELSE [f EXCEPT !.current_path = check_path, !.pos = @ + 1]

\* an Empty handler that gives up on an attribute item that is an Err: attr?
OnEmptyAttrErr(f) ==
    LET e == NextEvent(f)
        check_path == Append(f.current_path, e.name)
        attributes == Attributes(e.attrs)
    IN  IF PathMatch(check_path, f.path_parts)
        THEN IF \E n \in DOMAIN attributes : ~attributes[n].ok
             THEN [f EXCEPT !.state = "err"]
             ELSE [f EXCEPT !.urls = @ \o Extract(attributes, f.property),
                            !.pos = @ + 1]
        ELSE [f EXCEPT !.pos = @ + 1]

\* Event::Empty, lines 123-142
OnEmpty(f) ==
    LET e == NextEvent(f)
        check_path == Append(f.current_path, e.name)
    IN  IF ~Utf8Ok(e.name) THEN [f EXCEPT !.state = "err"]
        ELSE IF PathMatch(check_path, f.path_parts)
        THEN [f EXCEPT !.urls = @ \o Extract(Attributes(e.attrs), f.property), !.pos = @ + 1]
        ELSE [f EXCEPT !.pos = @ + 1]

\* an Eof handler without the break: the loop goes on reading
OnEofContinue(f) == [f EXCEPT !.pos = @ + 1]

\* Event::Eof, line 143, and the Ok(urls) of line 148
OnEof(f) == [f EXCEPT !.state = "ok"]

\* a handler of the other events that takes them for closing tags
OnOtherPop(f) ==
    [f EXCEPT !.current_path = IF @ = <<>> THEN @ ELSE SubSeq(@, 1, Len(@) - 1),
              !.pos = @ + 1]

\* any other event, line 144
OnOther(f) == [f EXCEPT !.pos = @ + 1]

\* line 115: read_event_into returned Err and unwrap panics
OnErr(f) == [f EXCEPT !.state = "panic"]

EventTypes == {"Start", "End", "Empty", "Eof", "Err"}

\* lines 114-147: one turn of the loop
Handle(f) ==
    CASE NextEvent(f).type = "Start" -> OnStart(f)
      [] NextEvent(f).type = "End" -> OnEnd(f)
      [] NextEvent(f).type = "Empty" -> OnEmpty(f)
      [] NextEvent(f).type = "Eof" -> OnEof(f)
      [] NextEvent(f).type = "Err" -> OnErr(f)
      [] OTHER -> OnOther(f)

\* lines 105-149: parse_xml run from frame f to its end
RECURSIVE RunFrom(_)
RunFrom(f) ==
    IF f.state # "scan" \/ f.pos > Len(f.doc) THEN f ELSE RunFrom(Handle(f))

ParseXml(doc, pcfg) == RunFrom(NewFrame(doc, pcfg))

\* a Start handler whose stack is one Vec shared by all invocations
ReadStartShared(c) ==
    /\ Reading(c, "Start")
    /\ calls' = [d \in CallIds |->
                   IF d = c THEN OnStart(calls[c])
                   ELSE IF calls[d].state = "scan"
                   THEN [calls[d] EXCEPT !.current_path =
                                           Append(@, NextEvent(calls[c]).name)]
                   ELSE calls[d]]
    /\ UNCHANGED mainVars

ReadStart(c) ==
    /\ Reading(c, "Start")
    /\ calls' = [calls EXCEPT ![c] = OnStart(calls[c])]
    /\ UNCHANGED mainVars

ReadEnd(c) ==
    /\ Reading(c, "End")
    /\ calls' = [calls EXCEPT ![c] = OnEnd(calls[c])]
    /\ UNCHANGED mainVars

ReadEmpty(c) ==
    /\ Reading(c, "Empty")
    /\ calls' = [calls EXCEPT ![c] = OnEmpty(calls[c])]
    /\ UNCHANGED mainVars

ReadEof(c) ==
    /\ Reading(c, "Eof")
    /\ calls' = [calls EXCEPT ![c] = OnEof(calls[c])]
    /\ UNCHANGED mainVars

ReadOther(c) ==
    /\ calls[c].state = "scan"
    /\ calls[c].pos =< Len(calls[c].doc)
    /\ NextEvent(calls[c]).type \notin EventTypes
    /\ calls' = [calls EXCEPT ![c] = OnOther(calls[c])]
    /\ UNCHANGED mainVars

ReadErr(c) ==
    /\ Reading(c, "Err")
    /\ calls' = [calls EXCEPT ![c] = OnErr(calls[c])]
    /\ UNCHANGED mainVars

NextScan ==
    \E c \in CallIds :
        \/ ReadStart(c)
        \/ ReadEnd(c)
        \/ ReadEmpty(c)
        \/ ReadEof(c)
        \/ ReadOther(c)
        \/ ReadErr(c)

(***************************************************************************)
(* parse_xml alone: one invocation on any document of ScanDocs.            *)
(***************************************************************************)
EmptyConfig == [rss |-> <<>>, parser |-> <<>>]

MainIdle ==
    /\ config = EmptyConfig
    /\ pc = "none"
    /\ rss_idx = 1
    /\ parser_config = NoParser
    /\ xml_content = <<>>
    /\ urls = <<>>
    /\ url_idx = 1
    /\ log = <<>>

ScanPaths == { <<"a", ",", "b">>, <<"b">> }

InitScan ==
    /\ MainIdle
    /\ \E doc \in ScanDocs, p \in ScanPaths :
         calls = [c \in CallIds |->
                    IF c = 1 THEN NewFrame(doc, ParserConfig(p, kUrl))
                    ELSE IdleFrame]

SpecScan == InitScan /\ [][NextScan]_vars

\* the loop of parse_xml is straight code: while it has a turn to take, it
\* takes it
SpecScanFair == SpecScan /\ WF_vars(NextScan)

(***************************************************************************)
(* The attributes of one element: one invocation for every way of writing  *)
(* up to MaxAttrs attributes in a tag at the target path, with another     *)
(* matching element after it.                                              *)
(***************************************************************************)
WrittenAttrs == {Attr(kUrl, vX), Attr(kUrl, vY), Attr(kOther, vX), AttrErr}

AttrDocs ==
    { <<EvText, EvStart(nA, <<>>), EvEmpty(nB, as),
        EvEmpty(nB, <<Attr(kUrl, vY)>>), EvEnd(nA), last>> :
        as \in UNION { [1..n -> WrittenAttrs] : n \in 0..MaxAttrs },
        last \in {EvEof, EvErr} }

InitAttrs ==
    /\ MainIdle
    /\ \E doc \in AttrDocs :
         calls = [c \in CallIds |->
                    IF c = 1
                    THEN NewFrame(doc, ParserConfig(<<"a", ",", "b">>, kUrl))
                    ELSE IdleFrame]

SpecAttrs == InitAttrs /\ [][NextScan]_vars

(***************************************************************************)
(* The configured path string split: one invocation per path string of up  *)
(* to MaxPathLen characters, on the feed documents.                        *)
(***************************************************************************)
PathChars == {"a", "b", " ", ","}

PathStrings == UNION { [1..n -> PathChars] : n \in 0..MaxPathLen }

InitSplit ==
    /\ MainIdle
    /\ \E doc \in FeedDocs, p \in PathStrings :
         calls = [c \in CallIds |->
                    IF c = 1 THEN NewFrame(doc, ParserConfig(p, kUrl))
                    ELSE IdleFrame]

SpecSplit == InitSplit /\ [][NextScan]_vars

(***************************************************************************)
(* Two invocations of parse_xml at once, their steps interleaved.          *)
(***************************************************************************)
InitConc ==
    /\ MainIdle
    /\ \E d1 \in FeedDocs, d2 \in FeedDocs, p1 \in ScanPaths, p2 \in ScanPaths :
         calls = [c \in CallIds |->
                    IF c = 1 THEN NewFrame(d1, ParserConfig(p1, kUrl))
                    ELSE NewFrame(d2, ParserConfig(p2, kUrl))]

SpecConc == InitConc /\ [][NextScan]_vars

(***************************************************************************)
(* main: the feed loop, lines 70-102.                                      *)
(***************************************************************************)
LogEntry(op, feed, url, ok) == [op |-> op, feed |-> feed, url |-> url, ok |-> ok]

FeedUrl == <<"u">>

\* the parser names a feed can carry; only "p" is in config.parser
ParserNames == {"p", "q"}

ConfigParsers == ("p" :> ParserConfig(<<"a", ",", "b">>, kUrl))

Feeds == [url : {FeedUrl}, parser : ParserNames]

Configs ==
    { [rss |-> r, parser |-> ConfigParsers] :
        r \in UNION { [1..n -> Feeds] : n \in 0..MaxFeeds } }

Init ==
    /\ config \in Configs
    /\ pc = "loop"
    /\ rss_idx = 1
    /\ parser_config = NoParser
    /\ xml_content = <<>>
    /\ urls = <<>>
    /\ url_idx = 1
    /\ log = <<>>
    /\ calls = [c \in CallIds |-> IdleFrame]

\* a lookup that passes over a feed whose parser is missing
LookupSkip ==
    /\ pc = "loop"
    /\ rss_idx =< Len(config.rss)
    /\ LET rss_config == config.rss[rss_idx]
       IN  IF rss_config.parser \in DOMAIN config.parser
           THEN /\ parser_config' = config.parser[rss_config.parser]
                /\ pc' = "fetch"
                /\ rss_idx' = rss_idx
           ELSE /\ parser_config' = parser_config
                /\ pc' = "loop"
                /\ rss_idx' = rss_idx + 1
    /\ UNCHANGED <<config, xml_content, urls, url_idx, log, calls>>

\* lines 71-75: the next feed of config.rss and its parser
Lookup ==
    /\ pc = "loop"
    /\ rss_idx =< Len(config.rss)
    /\ LET rss_config == config.rss[rss_idx]
       IN  IF rss_config.parser \in DOMAIN config.parser
           THEN /\ parser_config' = config.parser[rss_config.parser]
                /\ pc' = "fetch"
           ELSE /\ parser_config' = parser_config
                /\ pc' = "exit_err"
    /\ UNCHANGED <<config, rss_idx, xml_content, urls, url_idx, log, calls>>

\* lines 78-80: reqwest::get(url).await, with_context(..)?
Fetch ==
    /\ pc = "fetch"
    /\ \E ok \in BOOLEAN :
         /\ log' = Append(log, LogEntry("fetch", rss_idx, config.rss[rss_idx].url, ok))
         /\ pc' = IF ok THEN "text" ELSE "exit_err"
    /\ UNCHANGED <<config, rss_idx, parser_config, xml_content, urls, url_idx, calls>>

\* lines 81-84: response.text().await, with_context(..)?
Text ==
    /\ pc = "text"
    /\ \E ok \in BOOLEAN, body \in FeedDocs :
         /\ xml_content' = IF ok THEN body ELSE xml_content
         /\ pc' = IF ok THEN "parse" ELSE "exit_err"
    /\ UNCHANGED <<config, rss_idx, parser_config, urls, url_idx, log, calls>>

\* line 87: the call of parse_xml
CallParseXml ==
    /\ pc = "parse"
    /\ calls' = [calls EXCEPT ![1] = NewFrame(xml_content, parser_config)]
    /\ log' = Append(log, LogEntry("extract", rss_idx, <<>>, TRUE))
    /\ pc' = "scan"
    /\ UNCHANGED <<config, rss_idx, parser_config, xml_content, urls, url_idx>>

\* a return of parse_xml that hands over what was collected before a failure
ParseReturnPartial ==
    /\ pc = "scan"
    /\ calls[1].state \in {"ok", "err", "panic"}
    /\ pc' = "submit"
    /\ urls' = calls[1].urls
    /\ url_idx' = 1
    /\ UNCHANGED <<config, rss_idx, parser_config, xml_content, log, calls>>

\* line 87: parse_xml(..)? has returned Ok or Err, or has panicked
ParseReturn ==
    /\ pc = "scan"
    /\ calls[1].state \in {"ok", "err", "panic"}
    /\ pc' = CASE calls[1].state = "ok" -> "submit"
               [] calls[1].state = "err" -> "exit_err"
               [] calls[1].state = "panic" -> "panic"
    /\ urls' = IF calls[1].state = "ok" THEN calls[1].urls ELSE urls
    /\ url_idx' = 1
    /\ UNCHANGED <<config, rss_idx, parser_config, xml_content, log, calls>>

\* a submission loop that gives up the feed's other urls at the first Err
TorrentAddBreak ==
    /\ pc = "submit"
    /\ url_idx =< Len(urls)
    /\ \E ok \in BOOLEAN :
         /\ log' = Append(log, LogEntry("submit", rss_idx, urls[url_idx], ok))
         /\ url_idx' = IF ok THEN url_idx + 1 ELSE Len(urls) + 1
    /\ UNCHANGED <<config, pc, rss_idx, parser_config, xml_content, urls, calls>>

\* lines 90-98: client.torrent_add for the next url; an Err is only printed
TorrentAdd ==
    /\ pc = "submit"
    /\ url_idx =< Len(urls)
    /\ \E ok \in BOOLEAN :
         log' = Append(log, LogEntry("submit", rss_idx, urls[url_idx], ok))
    /\ url_idx' = url_idx + 1
    /\ UNCHANGED <<config, pc, rss_idx, parser_config, xml_content, urls, calls>>

\* an end of feed that goes back to the first feed of config.rss
EndFeedRestart ==
    /\ pc = "submit"
    /\ url_idx > Len(urls)
    /\ rss_idx' = IF rss_idx = Len(config.rss) THEN rss_idx + 1 ELSE 1
    /\ pc' = "loop"
    /\ UNCHANGED <<config, parser_config, xml_content, urls, url_idx, log, calls>>

\* lines 99-100: the urls are used up, on to the next feed
EndFeed ==
    /\ pc = "submit"
    /\ url_idx > Len(urls)
    /\ rss_idx' = rss_idx + 1
    /\ pc' = "loop"
    /\ UNCHANGED <<config, parser_config, xml_content, urls, url_idx, log, calls>>

\* line 102: config.rss is used up, Ok(())
MainReturn ==
    /\ pc = "loop"
    /\ rss_idx > Len(config.rss)
    /\ pc' = "exit_ok"
    /\ UNCHANGED <<config, rss_idx, parser_config, xml_content, urls, url_idx, log, calls>>

\* the steps of the one parse_xml invocation main is waiting for
ScanStep ==
    /\ pc = "scan"
    /\ \/ ReadStart(1)
       \/ ReadEnd(1)
       \/ ReadEmpty(1)
       \/ ReadEof(1)
       \/ ReadOther(1)
       \/ ReadErr(1)

Next ==
    \/ Lookup
    \/ Fetch
    \/ Text
    \/ CallParseXml
    \/ ParseReturn
    \/ TorrentAdd
    \/ EndFeed
    \/ MainReturn
    \/ ScanStep

Spec == Init /\ [][Next]_vars

(***************************************************************************)
(* What the checked properties are stated in.                              *)
(***************************************************************************)
\* the events call c has handled
Consumed(f) == f.pos - 1

\* call c takes a step on an event of the given type
Steps(c, type) == Reading(c, type) /\ calls'[c] # calls[c]

\* the names of the elements opened and not closed before event n of doc
RECURSIVE OpenAt(_, _)
OpenAt(doc, n) ==
    IF n =< 1 THEN <<>>
    ELSE LET open == OpenAt(doc, n - 1)
             e == doc[n - 1]
         IN  CASE e.type = "Start" -> Append(open, e.name)
               [] e.type = "End" /\ open # <<>> -> SubSeq(open, 1, Len(open) - 1)
               [] OTHER -> open

\* two paths of the same length with the same name in every place
SamePath(p, q) == Len(p) = Len(q) /\ \A n \in 1..Len(p) : p[n] = q[n]

\* the values of the attributes of as whose key is property, in order
Wanted(as, property) ==
    LET hit == SelectSeq(as, LAMBDA a : a.ok /\ a.key = property)
    IN  [n \in 1..Len(hit) |-> hit[n].value]

\* event n of doc is a self-closing element at the target path
MatchingAt(doc, n, target) ==
    /\ doc[n].type = "Empty"
    /\ SamePath(Append(OpenAt(doc, n), doc[n].name), target)

\* the wanted values of the matching elements among the first n events
RECURSIVE InDocumentOrder(_, _, _, _)
InDocumentOrder(doc, n, target, property) ==
    IF n = 0 THEN <<>>
    ELSE InDocumentOrder(doc, n - 1, target, property)
           \o (IF MatchingAt(doc, n, target)
               THEN Wanted(doc[n].attrs, property) ELSE <<>>)

Active(f) == f.state # "idle"

(***************************************************************************)
(* C1: a self-closing element adds its wanted attribute values to the      *)
(* result exactly when the ancestor stack with its name appended equals    *)
(* the target path in length and in every name; a candidate path that is a *)
(* strict prefix or a strict extension of the target, or differs in an     *)
(* ancestor, adds nothing.                                                 *)
(***************************************************************************)
C1_ExactPathMatch ==
    [][\A c \in CallIds :
         Steps(c, "Empty") =>
           LET f == calls[c]
               e == NextEvent(f)
               candidate == Append(f.current_path, e.name)
           IN  /\ SamePath(candidate, f.path_parts)
                    => calls'[c].urls = f.urls \o Wanted(e.attrs, f.property)
               /\ ~SamePath(candidate, f.path_parts)
                    => calls'[c].urls = f.urls]_vars

\* target a,b: an element with the property at the root, which adds nothing,
\* and <b k=X/> under <a>, which adds X
C1_Witness ==
    /\ calls[1].path_parts = <<nA, nB>>
    /\ calls[1].state = "ok"
    /\ \E n \in 1..Consumed(calls[1]) :
         /\ calls[1].doc[n] = EvEmpty(nB, <<Attr(kUrl, vX)>>)
         /\ OpenAt(calls[1].doc, n) = <<nA>>
    /\ \E n \in 1..Consumed(calls[1]) :
         /\ calls[1].doc[n].type = "Empty"
         /\ Wanted(calls[1].doc[n].attrs, kUrl) # <<>>
         /\ OpenAt(calls[1].doc, n) = <<>>
    /\ calls[1].urls = <<vX>>

(***************************************************************************)
(* C2: the result is the wanted values of the matching elements in the     *)
(* order the reader emitted them; it is only ever extended at its end, and *)
(* equal values stay separate entries.                                     *)
(***************************************************************************)
C2_DocumentOrder ==
    /\ [](\A c \in CallIds :
            Active(calls[c]) =>
              calls[c].urls = InDocumentOrder(calls[c].doc, Consumed(calls[c]),
                                              calls[c].path_parts,
                                              calls[c].property))
    /\ [][\A c \in CallIds :
            Active(calls[c]) => IsPrefix(calls[c].urls, calls'[c].urls)]_vars

\* two matching elements, the later one with the smaller value
C2_Witness ==
    /\ calls[1].state = "ok"
    /\ calls[1].doc = <<EvStart(nA, <<>>), EvEmpty(nB, <<Attr(kUrl, vY)>>),
                        EvEmpty(nB, <<Attr(kUrl, vX)>>), EvEof>>
    /\ calls[1].urls = <<vY, vX>>

(***************************************************************************)
(* A childless element written as an open tag directly followed by its     *)
(* close tag.                                                              *)
(***************************************************************************)
\* events n, n+1 of doc are Start, End of a childless element at the target
ChildlessAt(doc, n, target) ==
    /\ n + 1 =< Len(doc)
    /\ doc[n].type = "Start"
    /\ doc[n + 1].type = "End"
    /\ SamePath(Append(OpenAt(doc, n), doc[n].name), target)

\* doc with the pair at n, n+1 written as one self-closing element
SelfClosingForm(doc, n) ==
    SubSeq(doc, 1, n - 1) \o <<EvEmpty(doc[n].name, doc[n].attrs)>>
      \o SubSeq(doc, n + 2, Len(doc))

\* doc with the pair at n, n+1 left out
WithoutPair(doc, n) == SubSeq(doc, 1, n - 1) \o SubSeq(doc, n + 2, Len(doc))

FrameConfig(f) == ParserConfig(f.path, f.property)

\* C3 as claimed: the open/close form at the target path yields the same
\* result as the self-closing form at the same path
C3_OpenCloseSameAsEmpty ==
    \A c \in CallIds :
      calls[c].state = "ok" =>
        \A n \in 1..Len(calls[c].doc) :
          ChildlessAt(calls[c].doc, n, calls[c].path_parts) =>
            calls[c].urls =
              ParseXml(SelfClosingForm(calls[c].doc, n), FrameConfig(calls[c])).urls

\* C3 amended: the open/close form at the target path adds nothing, the
\* result is that of the document without the element; only the
\* self-closing form is matched
C3_OpenCloseAddsNothing ==
    \A c \in CallIds :
      calls[c].state = "ok" =>
        \A n \in 1..Len(calls[c].doc) :
          ChildlessAt(calls[c].doc, n, calls[c].path_parts) =>
            calls[c].urls =
              ParseXml(WithoutPair(calls[c].doc, n), FrameConfig(calls[c])).urls

\* <a><b k=X></b> with target a,b scanned to Eof: nothing extracted, where
\* <a><b k=X/> gives X
C3_Witness ==
    /\ calls[1].state = "ok"
    /\ calls[1].doc = <<EvStart(nA, <<>>), EvStart(nB, <<Attr(kUrl, vX)>>),
                        EvEnd(nB), EvEof>>
    /\ ChildlessAt(calls[1].doc, 2, calls[1].path_parts)
    /\ calls[1].urls = <<>>
    /\ ParseXml(SelfClosingForm(calls[1].doc, 2), FrameConfig(calls[1])).urls = <<vX>>

\* the reader has returned Err to the invocation, which has left its loop
FailedScan(f) ==
    /\ Active(f)
    /\ f.state # "scan"
    /\ f.pos =< Len(f.doc)
    /\ NextEvent(f).type = "Err"

(***************************************************************************)
(* C4: when the reader reports a tokenization failure, parse_xml returns   *)
(* an error value to its caller, and never a successful result holding     *)
(* the values collected so far.                                            *)
(***************************************************************************)
C4_FailureReturnsError ==
    \A c \in CallIds : FailedScan(calls[c]) => calls[c].state = "err"

(***************************************************************************)
(* C8: a matching element without the wanted attribute adds no entry and   *)
(* raises no error: the scan goes on to the next event with the result and *)
(* the stack as they were.                                                 *)
(***************************************************************************)
C8_MissingAttribute ==
    [][\A c \in CallIds :
         Steps(c, "Empty") =>
           LET f == calls[c]
               e == NextEvent(f)
           IN  ( /\ SamePath(Append(f.current_path, e.name), f.path_parts)
                 /\ \A n \in 1..Len(e.attrs) : e.attrs[n].key # f.property )
               => /\ calls'[c].urls = f.urls
                  /\ calls'[c].current_path = f.current_path
                  /\ calls'[c].state = "scan"
                  /\ calls'[c].pos = f.pos + 1]_vars

\* <a><b o=X/> with target a,b and property k, and the scan went on to Eof
C8_Witness ==
    /\ calls[1].state = "ok"
    /\ calls[1].path_parts = <<nA, nB>>
    /\ Consumed(calls[1]) >= 2
    /\ calls[1].doc[1] = EvStart(nA, <<>>)
    /\ calls[1].doc[2] = EvEmpty(nB, <<Attr(kOther, vX)>>)
    /\ calls[1].urls = <<>>

RECURSIVE Join(_)
Join(parts) ==
    IF parts = <<>> THEN <<>>
    ELSE IF Len(parts) = 1 THEN parts[1]
    ELSE parts[1] \o <<",">> \o Join(Tail(parts))

Commas(s) == Cardinality({n \in DOMAIN s : s[n] = ","})

\* the characters of s after its last comma
AfterLastComma(s) ==
    LET at == {n \in DOMAIN s : s[n] = ","}
        last == IF at = {} THEN 0 ELSE CHOOSE n \in at : \A m \in at : m =< n
    IN  SubSeq(s, last + 1, Len(s))

(***************************************************************************)
(* C9: the path string is split on every ',' and on nothing else, without  *)
(* trimming: the pieces joined with ',' give the string back, and a blank  *)
(* next to a comma stays in the tag name, so that with "a, b" an element   *)
(* named " b" matches the last piece and an element named "b" does not.    *)
(***************************************************************************)
C9_SplitOnCommaOnly ==
    /\ [](\A c \in CallIds :
            Active(calls[c]) =>
              /\ Join(calls[c].path_parts) = calls[c].path
              /\ Len(calls[c].path_parts) = Commas(calls[c].path) + 1
              /\ \A n \in 1..Len(calls[c].path_parts) :
                   Commas(calls[c].path_parts[n]) = 0
              /\ calls[c].path = <<"a", ",", " ", "b">>
                   => calls[c].path_parts = <<nA, nSpB>>)
    /\ [][\A c \in CallIds :
            (Steps(c, "Empty") /\ calls'[c].urls # calls[c].urls)
              => NextEvent(calls[c]).name = AfterLastComma(calls[c].path)]_vars

\* path "a, b": the element named " b" under <a> has given its value
C9_Witness ==
    /\ calls[1].path = <<"a", ",", " ", "b">>
    /\ calls[1].state = "ok"
    /\ \E n \in 1..Consumed(calls[1]) :
         calls[1].doc[n] = EvEmpty(nSpB, <<Attr(kUrl, vX)>>)
    /\ calls[1].urls = <<vX>>

(***************************************************************************)
(* C10: two invocations of parse_xml running at once do not interfere: a   *)
(* step of one leaves the other's stack and result alone, and each ends    *)
(* with the result it has when run alone.                                  *)
(***************************************************************************)
C10_NoInterference ==
    /\ [][\A c \in CallIds, d \in CallIds :
            c # d => (calls'[c] = calls[c] \/ calls'[d] = calls[d])]_vars
    /\ [](\A c \in CallIds :
            calls[c].state \in {"ok", "err", "panic"} =>
              calls[c] = ParseXml(calls[c].doc, FrameConfig(calls[c])))

\* invocation 1 has returned its two values while invocation 2, begun before
\* that, is still in the middle of its own document with its own stack
C10_Witness ==
    /\ calls[1].state = "ok"
    /\ calls[1].urls = <<vX, vY>>
    /\ calls[1].current_path = <<>>
    /\ calls[2].state = "scan"
    /\ Consumed(calls[2]) = 2
    /\ calls[2].current_path = <<nA>>
    /\ calls[2].urls = <<vX>>

(***************************************************************************)
(* What the properties of main are stated in.                              *)
(***************************************************************************)
\* the urls of the submissions logged for feed k, in the order of the log
SubmittedFor(k) ==
    LET hit == SelectSeq(log, LAMBDA x : x.op = "submit" /\ x.feed = k)
    IN  [n \in 1..Len(hit) |-> hit[n].url]

Fetched(k) == \E n \in DOMAIN log : log[n].op = "fetch" /\ log[n].feed = k

Ended == pc \in {"exit_ok", "exit_err", "panic"}

(***************************************************************************)
(* C5: an extraction failure of one feed does not end the run: the feeds   *)
(* after it are still fetched.                                             *)
(***************************************************************************)
C5_FailureDoesNotAbort ==
    (calls[1].state \in {"err", "panic"} /\ rss_idx < Len(config.rss))
      => /\ pc \notin {"exit_err", "panic"}
         /\ Ended => (\A k \in (rss_idx + 1)..Len(config.rss) : Fetched(k))

\* the submissions logged for the feed in hand, and for the feed just done
SubmittedSoFar ==
    /\ (pc = "submit") =>
         ( /\ urls = calls[1].urls
           /\ SubmittedFor(rss_idx) = SubSeq(urls, 1, url_idx - 1) )
    /\ (pc = "loop" /\ rss_idx > 1) =>
         ( /\ urls = calls[1].urls
           /\ SubmittedFor(rss_idx - 1) = urls )

(***************************************************************************)
(* C6: for a feed extracted with result L, a submission is attempted once  *)
(* for each entry of L, in the order of L, whichever of them fail; a       *)
(* failed submission does not end the run with an error.                   *)
(***************************************************************************)
C6_SubmitEveryLink ==
    /\ []SubmittedSoFar
    /\ [][pc = "submit" => pc' \in {"submit", "loop"}]_vars

\* a feed with two links: the first submission failed, the second was made,
\* and the run ended with Ok
C6_Witness ==
    /\ pc = "exit_ok"
    /\ \E n \in DOMAIN log :
         /\ n + 1 \in DOMAIN log
         /\ log[n].op = "submit" /\ ~log[n].ok
         /\ log[n + 1].op = "submit" /\ log[n + 1].feed = log[n].feed
         /\ SubmittedFor(log[n].feed) = <<vX, vY>>

OpRank(op) == CASE op = "fetch" -> 1 [] op = "extract" -> 2 [] op = "submit" -> 3

(***************************************************************************)
(* C7: the feeds are processed one after the other in the order of         *)
(* config.rss: the fetch, the extraction and every submission of a feed    *)
(* come before the fetch of any later feed, and no feed is fetched twice.  *)
(***************************************************************************)
C7_FeedsInOrder ==
    /\ \A n \in DOMAIN log :
         /\ log[n].feed \in 1..Len(config.rss)
         /\ log[n].feed =< rss_idx
         /\ (log[n].op = "fetch") => (log[n].url = config.rss[log[n].feed].url)
    /\ \A n \in DOMAIN log, m \in DOMAIN log :
         (n < m) =>
           ( /\ log[n].feed =< log[m].feed
             /\ (log[n].feed = log[m].feed)
                  => (OpRank(log[n].op) =< OpRank(log[m].op))
             /\ (log[n].op = "fetch" /\ log[m].op = "fetch")
                  => (log[n].feed # log[m].feed) )

\* two feeds done: the links of the first were submitted before the second
\* was fetched
C7_Witness ==
    /\ pc = "exit_ok"
    /\ \E n \in DOMAIN log, m \in DOMAIN log :
         /\ n < m
         /\ log[n].op = "submit" /\ log[n].feed = 1
         /\ log[m].op = "fetch" /\ log[m].feed = 2
    /\ SubmittedFor(2) # <<>>

(***************************************************************************)
(* The elements opened and not yet closed, told from the document alone.   *)
(***************************************************************************)
\* how many of the events a..b of doc are of the type
CountOf(doc, type, a, b) == Cardinality({j \in a..b : doc[j].type = type})

\* no close among the first n events comes without an open before it
Balanced(doc, n) ==
    \A m \in 1..n : CountOf(doc, "End", 1, m) =< CountOf(doc, "Start", 1, m)

\* event i is an open tag that no close among the events up to n has closed
StillOpen(doc, i, n) ==
    /\ doc[i].type = "Start"
    /\ \A j \in (i + 1)..n :
         CountOf(doc, "End", i + 1, j) =< CountOf(doc, "Start", i + 1, j)

\* the names of the open tags among events i..n still open after event n,
\* outermost first
RECURSIVE OpenNames(_, _, _)
OpenNames(doc, i, n) ==
    IF i > n THEN <<>>
    ELSE (IF StillOpen(doc, i, n) THEN <<doc[i].name>> ELSE <<>>)
           \o OpenNames(doc, i + 1, n)

(***************************************************************************)
(* C11: while opens and closes are balanced, the stack after each event is *)
(* the names of the elements opened and not yet closed, outermost first,   *)
(* and it is empty at the end of a document whose opens are all closed.    *)
(***************************************************************************)
C11_StackIsOpenElements ==
    \A c \in CallIds :
      (Active(calls[c]) /\ Balanced(calls[c].doc, Consumed(calls[c]))) =>
        /\ calls[c].current_path = OpenNames(calls[c].doc, 1, Consumed(calls[c]))
        /\ ( /\ calls[c].state = "ok"
             /\ CountOf(calls[c].doc, "Start", 1, Consumed(calls[c]))
                  = CountOf(calls[c].doc, "End", 1, Consumed(calls[c])) )
            => calls[c].current_path = <<>>

\* <a><b ..></b> read: b was pushed and popped, a is still open
C11_Witness ==
    /\ calls[1].state = "scan"
    /\ Consumed(calls[1]) = 3
    /\ calls[1].doc[1] = EvStart(nA, <<>>)
    /\ calls[1].doc[2].type = "Start"
    /\ calls[1].doc[3] = EvEnd(nB)
    /\ calls[1].current_path = <<nA>>

(***************************************************************************)
(* C12: a close event met with an empty stack is a no-op: the stack stays  *)
(* empty, the result stays, no error or crash, the scan goes on.           *)
(***************************************************************************)
C12_UnbalancedCloseIsNoOp ==
    [][\A c \in CallIds :
         (Steps(c, "End") /\ calls[c].current_path = <<>>)
           => calls'[c] = [calls[c] EXCEPT !.pos = @ + 1]]_vars

\* </a><a><b k=X/> with target a,b read to Eof: the close changed nothing
C12_Witness ==
    /\ calls[1].state = "ok"
    /\ calls[1].doc = <<EvEnd(nA), EvStart(nA, <<>>),
                        EvEmpty(nB, <<Attr(kUrl, vX)>>), EvEof>>
    /\ calls[1].urls = <<vX>>
    /\ calls[1].current_path = <<nA>>

(***************************************************************************)
(* C13: a self-closing element never changes the stack, matching or not:   *)
(* its name goes on a copy only.                                           *)
(***************************************************************************)
C13_EmptyKeepsStack ==
    [][\A c \in CallIds :
         Steps(c, "Empty")
           => calls'[c].current_path = calls[c].current_path]_vars

\* under <a>, a matching <b k=X/> and then another element were read, and
\* the stack is still a
C13_Witness ==
    /\ calls[1].state = "scan"
    /\ Consumed(calls[1]) = 3
    /\ calls[1].path_parts = <<nA, nB>>
    /\ calls[1].doc[1] = EvStart(nA, <<>>)
    /\ calls[1].doc[2] = EvEmpty(nB, <<Attr(kUrl, vX)>>)
    /\ calls[1].doc[3] = EvEmpty(nA, <<Attr(kUrl, vX)>>)
    /\ calls[1].urls = <<vX>>
    /\ calls[1].current_path = <<nA>>

(***************************************************************************)
(* The attributes of a matching element.                                   *)
(***************************************************************************)
\* the value of the first well-formed attribute of as with the key, if any
FirstWanted(as, property) ==
    LET hit == {n \in DOMAIN as : as[n].ok /\ as[n].key = property}
    IN  IF hit = {} THEN <<>>
        ELSE <<as[CHOOSE n \in hit : \A m \in hit : n =< m].value>>

\* call c takes a step on a self-closing element at the target path
StepsOnMatch(c) ==
    /\ Steps(c, "Empty")
    /\ SamePath(Append(calls[c].current_path, NextEvent(calls[c]).name),
                calls[c].path_parts)

\* C14 as claimed: the value of every attribute whose key is the wanted
\* name is appended, in order, every occurrence of a repeated key included
C14_EveryOccurrence ==
    [][\A c \in CallIds :
         StepsOnMatch(c) =>
           calls'[c].urls = calls[c].urls
             \o Wanted(NextEvent(calls[c]).attrs, calls[c].property)]_vars

\* C14 amended: the attributes are walked in document order and the value
\* of the well-formed attribute whose key is the wanted name is appended;
\* of a key written more than once only the first occurrence's value is,
\* the later ones being error items of the iterator, which are skipped
C14_FirstOccurrence ==
    [][\A c \in CallIds :
         StepsOnMatch(c) =>
           calls'[c].urls = calls[c].urls
             \o FirstWanted(NextEvent(calls[c]).attrs, calls[c].property)]_vars

\* <b k=X k=Y/> at the target path has been read and has given X alone
C14_Witness ==
    /\ calls[1].state = "scan"
    /\ Consumed(calls[1]) = 3
    /\ calls[1].doc[3] = EvEmpty(nB, <<Attr(kUrl, vX), Attr(kUrl, vY)>>)
    /\ calls[1].current_path = <<nA>>
    /\ calls[1].path_parts = <<nA, nB>>
    /\ calls[1].urls = <<vX>>

\* the attributes of as that are well-formed
WellFormedOnly(as) == SelectSeq(as, LAMBDA a : a.ok)

\* frame f with the malformed attributes of its next event left out
WithoutMalformed(f) == [f EXCEPT !.doc[f.pos].attrs = WellFormedOnly(@)]

(***************************************************************************)
(* C15: a malformed attribute of a matching element is skipped: it adds no *)
(* entry, the other attributes of the element count as if it were not      *)
(* there, the scan goes on to the later elements and ends with success.    *)
(***************************************************************************)
C15_MalformedAttributeSkipped ==
    /\ [][\A c \in CallIds :
            StepsOnMatch(c) =>
              /\ calls'[c].state = "scan"
              /\ calls'[c].pos = calls[c].pos + 1
              /\ calls'[c].current_path = calls[c].current_path
              /\ calls'[c].urls = OnEmpty(WithoutMalformed(calls[c])).urls]_vars
    /\ [](\A c \in CallIds :
            (Active(calls[c]) /\ calls[c].state # "scan")
              => (calls[c].state = "ok"
                    <=> calls[c].doc[Len(calls[c].doc)].type = "Eof"))

\* a malformed attribute before k=X: X was taken, so was the Y of the next
\* element, and parse_xml returned Ok
C15_Witness ==
    /\ calls[1].state = "ok"
    /\ calls[1].doc[3] = EvEmpty(nB, <<AttrErr, Attr(kUrl, vX)>>)
    /\ calls[1].path_parts = <<nA, nB>>
    /\ calls[1].urls = <<vX, vY>>

\* the reader has an Eof for the invocation and no Err before it
EndsWithEof(f) ==
    \E n \in DOMAIN f.doc :
      /\ f.doc[n].type = "Eof"
      /\ \A m \in 1..(n - 1) : f.doc[m].type \notin {"Eof", "Err"}

\* the invocation has returned from the first Eof of its document with the
\* values of the events before it
ReturnedAtFirstEof(f) ==
    /\ f.pos \in DOMAIN f.doc
    /\ f.doc[f.pos].type = "Eof"
    /\ \A m \in 1..(f.pos - 1) : f.doc[m].type # "Eof"
    /\ f.urls = InDocumentOrder(f.doc, f.pos - 1, f.path_parts, f.property)

(***************************************************************************)
(* C16: on a finite event sequence that ends with Eof and holds no         *)
(* tokenization failure, parse_xml terminates: it takes the events one by  *)
(* one in order, stops at the first Eof, reads nothing after it, and       *)
(* returns the values gathered up to there.                                *)
(***************************************************************************)
C16_Terminates ==
    /\ \A c \in CallIds :
         (Active(calls[c]) /\ EndsWithEof(calls[c])) ~> (calls[c].state = "ok")
    /\ [](\A c \in CallIds :
            calls[c].state = "ok" => ReturnedAtFirstEof(calls[c]))
    /\ [][\A c \in CallIds :
            /\ (calls[c].state = "scan" /\ calls'[c] # calls[c])
                 => \/ calls'[c].state = "scan" /\ calls'[c].pos = calls[c].pos + 1
                    \/ calls'[c].state # "scan" /\ calls'[c].pos = calls[c].pos
            /\ calls[c].state = "ok" => calls'[c] = calls[c]]_vars

\* three events and then Eof: all three were taken, and parse_xml returned
C16_Witness ==
    /\ calls[1].state = "ok"
    /\ Len(calls[1].doc) = 4
    /\ calls[1].pos = 4
    /\ calls[1].doc[1] = EvStart(nA, <<>>)
    /\ calls[1].doc[2] = EvEmpty(nB, <<Attr(kUrl, vX)>>)
    /\ calls[1].urls = <<vX>>

\* doc without its events that are neither open, close, self-closing, Eof
\* nor a failure of the reader
StripOther(doc) == SelectSeq(doc, LAMBDA e : e.type \in EventTypes)

(***************************************************************************)
(* C17: an event that is no open, close, self-closing element or end of    *)
(* document (text, comment, declaration) changes neither the stack nor the *)
(* result, and a document gives the same result with all such events       *)
(* taken out.                                                              *)
(***************************************************************************)
C17_OtherEventsIgnored ==
    /\ [][\A c \in CallIds :
            ( /\ calls[c].state = "scan"
              /\ calls[c].pos =< Len(calls[c].doc)
              /\ NextEvent(calls[c]).type \notin EventTypes
              /\ calls'[c] # calls[c] )
            => calls'[c] = [calls[c] EXCEPT !.pos = @ + 1]]_vars
    /\ [](\A c \in CallIds :
            (Active(calls[c]) /\ calls[c].state # "scan") =>
              LET g == ParseXml(StripOther(calls[c].doc), FrameConfig(calls[c]))
              IN  /\ calls[c].urls = g.urls
                  /\ calls[c].state = g.state
                  /\ calls[c].current_path = g.current_path)

\* <a>text<b k=X/> with target a,b: the text between did not unsettle the
\* match
C17_Witness ==
    /\ calls[1].state = "ok"
    /\ calls[1].doc = <<EvStart(nA, <<>>), EvText,
                        EvEmpty(nB, <<Attr(kUrl, vX)>>), EvEof>>
    /\ calls[1].urls = <<vX>>
    /\ calls[1].current_path = <<nA>>

\* the extraction of feed k was started
Extracted(k) == \E n \in DOMAIN log : log[n].op = "extract" /\ log[n].feed = k

\* while the current feed's extraction runs or after it failed, none of the
\* feed's links has been submitted
NoneBeforeSuccess ==
    (calls[1].state \in {"scan", "err", "panic"}) => (SubmittedFor(rss_idx) = <<>>)

(***************************************************************************)
(* C18: no link of a feed is submitted before the extraction of the whole  *)
(* feed document has succeeded: a submission is made only when the scan of *)
(* that feed has returned at Eof, and a feed whose extraction fails        *)
(* part-way has none of its links submitted, those collected before the    *)
(* failure included.                                                       *)
(***************************************************************************)
C18_SubmitAfterExtraction ==
    /\ []NoneBeforeSuccess
    /\ [][(log' # log /\ log'[Len(log')].op = "submit")
            => /\ log'[Len(log')].feed = rss_idx
               /\ Extracted(rss_idx)
               /\ calls[1].state = "ok"
               /\ calls[1].doc = xml_content
               /\ ReturnedAtFirstEof(calls[1])
               /\ \E n \in DOMAIN calls[1].urls :
                     calls[1].urls[n] = log'[Len(log')].url]_vars
    /\ [][(calls[1].state \in {"err", "panic"})
            => (log' = log /\ calls' = calls)]_vars

\* the second feed failed after a matching element: its link was collected
\* but never submitted, while the first feed's links were
C18_Witness ==
    /\ pc = "panic"
    /\ rss_idx = 2
    /\ calls[1].urls = <<vX>>
    /\ SubmittedFor(2) = <<>>
    /\ SubmittedFor(1) = <<vX, vY>>

\* feed k names a parser that config.parser does not hold
ParserMissing(k) == config.rss[k].parser \notin DOMAIN config.parser

\* the log holds a failed fetch of feed k
FetchFailed(k) ==
    \E n \in DOMAIN log :
       log[n].op = "fetch" /\ log[n].feed = k /\ ~log[n].ok

\* nothing was done for a feed after k, and for feed k nothing but its fetch
StoppedAt(k) ==
    /\ ~Extracted(k)
    /\ SubmittedFor(k) = <<>>
    /\ \A n \in DOMAIN log : log[n].feed =< k

\* what holds of a feed without parser, of a failed fetch, and of a run ended
\* with an error or without
EndsAtFailedFeed ==
    /\ \A k \in DOMAIN config.rss :
          /\ (ParserMissing(k) /\ rss_idx >= k)
                => (rss_idx = k /\ ~Fetched(k) /\ StoppedAt(k))
          /\ FetchFailed(k)
                => ( /\ rss_idx = k
                     /\ pc = "exit_err"
                     /\ StoppedAt(k)
                     /\ log[Len(log)] = LogEntry("fetch", k, config.rss[k].url, FALSE) )
    /\ (pc = "exit_err")
          => ( /\ rss_idx \in DOMAIN config.rss
               /\ StoppedAt(rss_idx)
               /\ \/ ParserMissing(rss_idx)
                  \/ /\ log # <<>>
                     /\ log[Len(log)].op = "fetch"
                     /\ log[Len(log)].feed = rss_idx )
    /\ (pc = "exit_ok")
          => \A k \in DOMAIN config.rss : ~ParserMissing(k) /\ ~FetchFailed(k)

\* what a step of main keeps: the log only grows, a run ended with an error
\* does nothing more, and a missing parser or an unreadable body ends the run
\* without a fetch or an extraction
FailureStep ==
    /\ IsPrefix(log, log')
    /\ (pc = "exit_err") => (vars' = vars)
    /\ (pc = "loop" /\ rss_idx \in DOMAIN config.rss /\ ParserMissing(rss_idx))
         => (pc' = "exit_err" /\ log' = log)
    /\ (pc = "text" /\ pc' # "parse")
         => (pc' = "exit_err" /\ log' = log /\ calls' = calls)

(***************************************************************************)
(* C19: a feed whose parser is missing from the parser map, whose fetch    *)
(* fails or whose body cannot be read ends the run with an error at that   *)
(* feed: the feed is not extracted, no later feed is fetched, no later     *)
(* link is submitted, the submissions made for earlier feeds stay, and a   *)
(* missing parser is found before the feed's url is fetched.               *)
(***************************************************************************)
C19_EarlyFailureEndsRun == []EndsAtFailedFeed /\ [][FailureStep]_vars

\* the second feed names the parser "q": the run ended there without a
\* fetch, after the links of the first feed were submitted
C19_Witness ==
    /\ pc = "exit_err"
    /\ rss_idx = 2
    /\ ParserMissing(2)
    /\ ~Fetched(2)
    /\ SubmittedFor(1) = <<vX, vY>>

====
